---- MODULE Spec2Model ----
(***************************************************************************)
(* Particle swarm optimisation demo (src/pso/src/main.rs): the swarm, its  *)
(* two constructors, the update step and the driver loops of main.         *)
(*                                                                         *)
(* Numbers.  The program computes on f64.  The model keeps every value as  *)
(* an integer count of units of 1/One (One units are the real 1.0), and    *)
(* every objective value as an integer count of units of 1/One^2.  A       *)
(* random draw r in [0,1) is a count of units in 0..One-1.  The model only *)
(* takes the steps whose products c*r*d are whole units, so all arithmetic *)
(* in it is exact; values are finite (NaN and the infinities are outside   *)
(* the modelled domain).                                                   *)
(***************************************************************************)
EXTENDS Integers, Sequences, FiniteSets, TLC

(* ------------------------------ bounds -------------------------------- *)
\* largest particle count -n, and largest length of an --init / --vinit list
MaxN == 2
\* width of usize in the model (the -i count and the for range, 64 in the build)
UsizeBits == 2
\* width of the i32 loop counter of the threshold loop in the model (32 in the build)
IterBits == 3
\* |position| and |velocity| stay within MaxAbs units; a step that leaves is not taken
MaxAbs == 4
\* largest number of command-line arguments after the program name
MaxArgs == 4

(* --------------------------- program constants ------------------------ *)
\* the literal 1.0 of the objective, in units
One == 2
\* c1 = c2 = 0.5 = CNum / CDen
CNum == 1
CDen == 2
\* let mut thresh = 0.0001, in units of 1/One^2: it lies strictly between the
\* objective values 0 and 1 of the model, so f(g) > 0.0001 is f(g) > 0 there
DefaultThresh == 0
\* std::process::exit(1)
ExitFailure == 1

UsizeMax == 2^UsizeBits - 1
I32Max == 2^(IterBits - 1) - 1
I32Min == 0 - 2^(IterBits - 1)
\* the ghost count of applied steps saturates here, above every -i count
StepCap == UsizeMax + 1

\* Option<T>: None is the empty sequence, Some(x) is <<x>>
None == <<>>
Some(x) == <<x>>
IsSome(o) == o # None
Unwrap(o) == o[1]

(* ------------------------------ inputs -------------------------------- *)
\* values an --init list is drawn from: 0.0, 0.5, 2.0 (0.0 and 2.0 tie under f)
InitPos == {0, 1, 4}
\* values a --vinit list is drawn from: -0.5 (0.0 comes from vec![0.0; n], 0.5
\* from new_random)
InitVel == {0 - 1}
\* values r.gen::<f64>() yields: 0.0 and 0.5
Gen == {0, 1}
\* values of -e, in units of 1/One^2: 0.0 and 0.25
ThreshVals == {0, 1}

SeqsUpTo(S, k) == UNION {[1..m -> S] : m \in 0..k}

\* the words a command line is made of: the flags, the numbers 1 and the largest
\* usize, 0.5, a list of two, and a word that is neither a flag nor a number
Words == {"-n", "-i", "-e", "-v", "--seed", "--init", "--vinit",
          "1", ToString(UsizeMax), "0.5", "0,0.5", "x"}

(* ------------------------------ objective ----------------------------- *)
\* f(x) = (x - 1.0) * (x - 1.0)
F(x) == (x - One) * (x - One)

\* f64::partial_cmp on finite values
PartialCmp(a, b) == IF a < b THEN "Less" ELSE IF a > b THEN "Greater" ELSE "Equal"

\* mutant: the reduction keeps the earlier of two equal elements
MaxBy_First(s, compare) ==
    IF Len(s) = 0 THEN None
    ELSE LET acc[k \in 1..Len(s)] ==
                 IF k = 1 THEN s[1]
                 ELSE IF compare[<<acc[k - 1], s[k]>>] # "Less" THEN acc[k - 1] ELSE s[k]
         IN  Some(acc[Len(s)])

\* Iterator::max_by: reduce with max_by(acc, next), which keeps acc only when
\* compare(acc, next) is Greater; None on an empty sequence.  compare is the
\* closure, as a function on pairs of elements
MaxBy(s, compare) ==
    IF Len(s) = 0 THEN None
    ELSE LET acc[k \in 1..Len(s)] ==
                 IF k = 1 THEN s[1]
                 ELSE IF compare[<<acc[k - 1], s[k]>>] = "Greater" THEN acc[k - 1] ELSE s[k]
         IN  Some(acc[Len(s)])

\* the pairs of elements of a sequence
Pairs(s) == {s[k] : k \in 1..Len(s)} \X {s[k] : k \in 1..Len(s)}

\* the comparator closure of the two constructors
NewCompare(opt, s) ==
    [p \in Pairs(s) |->
        IF opt = "FindMinimum" THEN PartialCmp(F(p[1]), F(p[2]))
        ELSE PartialCmp(F(p[2]), F(p[1]))]

\* mutant: update compares the way the constructors do
UpdateCompare_Reversed(opt, s) ==
    [p \in Pairs(s) |->
        IF opt = "FindMinimum" THEN PartialCmp(F(p[1]), F(p[2]))
        ELSE PartialCmp(F(p[2]), F(p[1]))]

\* the comparator closure of update
UpdateCompare(opt, s) ==
    [p \in Pairs(s) |->
        IF opt = "FindMinimum" THEN PartialCmp(F(p[2]), F(p[1]))
        ELSE PartialCmp(F(p[1]), F(p[2]))]

(* ------------------------------ parse --------------------------------- *)
\* Result<T, ParseError>; out are the lines parse has printed so far
Ok(v, out) == [ok |-> TRUE, val |-> v, out |-> out]
Err(kind, arg, out) == [ok |-> FALSE, kind |-> kind, arg |-> arg, out |-> out]

\* the flags that take a value
ValueFlags == {"-n", "-i", "-e", "--seed", "--init", "--vinit"}

\* str::parse::<usize> and ::<u64>: the number whose decimal text is t, None when
\* t is not the text of a number of that width
ParseUsize(t) ==
    IF \E k \in 0..UsizeMax : ToString(k) = t
    THEN Some(CHOOSE k \in 0..UsizeMax : ToString(k) = t)
    ELSE None

\* the texts with a fraction that the command lines of the model carry, in units
Fractions == [t \in {"0.5", "-0.5"} |-> IF t = "0.5" THEN One \div 2 ELSE 0 - (One \div 2)]

\* str::parse::<f64>, in units: a decimal integer, or one of Fractions; None for
\* any other text of the model
ParseF64(t) ==
    IF IsSome(ParseUsize(t)) THEN Some(Unwrap(ParseUsize(t)) * One)
    ELSE IF t \in DOMAIN Fractions THEN Some(Fractions[t])
    ELSE None

\* str::split(","): the pieces of a text between its commas
Split(t) == IF t = "0,0.5" THEN <<"0", "0.5">> ELSE <<t>>

\* split(",").map(parse::<f64>).collect::<Result<Vec<f64>, ParseError>>(): the
\* first piece that does not parse is the error
ParseList(t, out) ==
    LET parts == Split(t)
        bad == {k \in 1..Len(parts) : ~IsSome(ParseF64(parts[k]))}
    IN  IF bad # {}
        THEN Err("InvalidArgument", parts[CHOOSE k \in bad : \A j \in bad : k <= j], out)
        ELSE Ok([k \in 1..Len(parts) |-> Unwrap(ParseF64(parts[k]))], out)

\* the locals of parse before its loop (verbose and r have no part in the model:
\* they select what is printed and which draws come)
ParseLocals == [n |-> None, iter |-> None, thresh |-> DefaultThresh,
                init |-> None, vinit |-> None, out |-> <<>>]

\* the loop of parse from argument j on (a[1] is the program name), and the
\* final Ok(RunOptions { .. }) with n.ok_or(MissingArgument("-n"))
RECURSIVE ParseLoop(_, _, _)
ParseLoop(a, j, l) ==
    IF ~(j <= Len(a))
    THEN IF IsSome(l.n)
         THEN Ok([n |-> Unwrap(l.n), iter |-> l.iter, thresh |-> l.thresh,
                  init |-> l.init, vinit |-> l.vinit], l.out)
         ELSE Err("MissingArgument", "-n", l.out)
    ELSE IF a[j] = "-v" THEN ParseLoop(a, j + 1, l)
    ELSE IF a[j] \notin ValueFlags THEN Err("InvalidArgument", a[j], l.out)
    ELSE IF j + 1 > Len(a) THEN Err("MissingArgument", a[j], l.out)
    ELSE LET text == a[j + 1]
         IN  CASE a[j] = "-n" ->
                    IF IsSome(ParseUsize(text))
                    THEN ParseLoop(a, j + 2, [l EXCEPT !.n = ParseUsize(text)])
                    ELSE Err("InvalidParticleNumber", text, l.out)
               [] a[j] = "-i" ->
                    IF IsSome(ParseUsize(text))
                    THEN ParseLoop(a, j + 2, [l EXCEPT !.iter = ParseUsize(text)])
                    ELSE Err("InvalidIterations", text, l.out)
               [] a[j] = "-e" ->
                    IF IsSome(ParseF64(text))
                    THEN ParseLoop(a, j + 2,
                                   [l EXCEPT !.thresh = Unwrap(ParseF64(text)) * One])
                    ELSE Err("InvalidThreshold", text, l.out)
               [] a[j] = "--seed" ->
                    IF IsSome(ParseUsize(text))
                    THEN ParseLoop(a, j + 2, [l EXCEPT !.out = Append(@, "Using seed")])
                    ELSE Err("InvalidSeed", text, l.out)
               [] a[j] = "--init" ->
                    IF ParseList(text, l.out).ok
                    THEN ParseLoop(a, j + 2,
                                   [l EXCEPT !.init = Some(ParseList(text, l.out).val)])
                    ELSE ParseList(text, l.out)
               [] a[j] = "--vinit" ->
                    IF ParseList(text, l.out).ok
                    THEN ParseLoop(a, j + 2,
                                   [l EXCEPT !.vinit = Some(ParseList(text, l.out).val)])
                    ELSE ParseList(text, l.out)

\* parse
Parse(a) == ParseLoop(a, 2, ParseLocals)

\* the first line main prints for each ParseError, with eprintln!
ErrorLine == [kind \in {"MissingArgument", "InvalidParticleNumber", "InvalidIterations",
                        "InvalidThreshold", "InvalidSeed", "InvalidArgument"} |->
                 CASE kind = "MissingArgument" -> "Missing argument for"
                   [] kind = "InvalidParticleNumber" -> "Invalid number of particles"
                   [] kind = "InvalidIterations" -> "Invalid number of iterations"
                   [] kind = "InvalidThreshold" -> "Invalid error threhold"
                   [] kind = "InvalidSeed" -> "Invalid seed"
                   [] kind = "InvalidArgument" -> "Unexpected argument"]

\* the lines usage prints, as one
UsageText == "Usage"

(* ------------------------------ the swarm ----------------------------- *)
\* struct ParticleSwarm; NoSwarm stands for "no swarm has been built"
NoSwarm == [position |-> <<>>, velocity |-> <<>>, local_optimum |-> <<>>,
            global_optimum |-> None]

\* the outcome of a constructor call: a swarm, or the panic that aborted it
Built(sw) == [panic |-> "", swarm |-> sw]
Panicked(msg) == [panic |-> msg, swarm |-> NoSwarm]

\* mutant: the assert! lets a longer vector through
LengthOk_AtLeast(vec, n) == Len(vec) >= n

\* the condition of the two assert! of ParticleSwarm::new
LengthOk(vec, n) == Len(vec) = n

\* ParticleSwarm::new
New(n, x, v, opt) ==
    IF ~LengthOk(x, n) THEN Panicked("PositionLength")
    ELSE IF ~LengthOk(v, n) THEN Panicked("VelocityLength")
    ELSE LET local_optimum == [k \in 1..n |-> x[k]]
             global_optimum == MaxBy(local_optimum, NewCompare(opt, local_optimum))
         IN  IF ~IsSome(global_optimum) THEN Panicked("UnwrapNone")
             ELSE Built([position |-> x, velocity |-> v,
                         local_optimum |-> local_optimum,
                         global_optimum |-> Some(Unwrap(global_optimum))])

\* mutant: the loop of new_random stops one particle short
NewRandom_Short(n, draws, opt) ==
    LET position == [k \in 1..(n - 1) |-> draws[2 * k - 1]]
        velocity == [k \in 1..(n - 1) |-> draws[2 * k]]
        local_optimum == [k \in 1..(n - 1) |-> draws[2 * k - 1]]
        global_optimum == MaxBy(local_optimum, NewCompare(opt, local_optimum))
    IN  IF ~IsSome(global_optimum) THEN Panicked("UnwrapNone")
        ELSE Built([position |-> position, velocity |-> velocity,
                    local_optimum |-> local_optimum,
                    global_optimum |-> Some(Unwrap(global_optimum))])

\* ParticleSwarm::new_random; draws are the values r.gen() yields, in order:
\* x then v for each particle
NewRandom(n, draws, opt) ==
    LET position == [k \in 1..n |-> draws[2 * k - 1]]
        velocity == [k \in 1..n |-> draws[2 * k]]
        local_optimum == [k \in 1..n |-> draws[2 * k - 1]]
        global_optimum == MaxBy(local_optimum, NewCompare(opt, local_optimum))
    IN  IF ~IsSome(global_optimum) THEN Panicked("UnwrapNone")
        ELSE Built([position |-> position, velocity |-> velocity,
                    local_optimum |-> local_optimum,
                    global_optimum |-> Some(Unwrap(global_optimum))])

(* ------------------------------ update -------------------------------- *)
\* mutant: the personal best is overwritten on every step
Improves_Always(opt, fnew, fold) == TRUE

\* mutant: the personal best is overwritten on a tie too
Improves_OrEqual(opt, fnew, fold) ==
    IF opt = "FindMinimum" THEN fnew <= fold ELSE fnew >= fold

\* mutant: the two directions are swapped
Improves_Flipped(opt, fnew, fold) ==
    IF opt = "FindMinimum" THEN fnew > fold ELSE fnew < fold

\* the test of the personal-best update: strictly better per direction
Improves(opt, fnew, fold) ==
    IF opt = "FindMinimum" THEN fnew < fold ELSE fnew > fold

\* c * r * d with c = CNum/CDen and r = r_units/One, in units
Scaled(r, d) == (CNum * r * d) \div (CDen * One)
\* the product is a whole number of units
Whole(r, d) == (CNum * r * d) % (CDen * One) = 0

\* mutant: position[i] = velocity[i] in place of +=
Move_Assign(sw, opt) ==
    LET m == Len(sw.position)
        position == [k \in 1..m |-> sw.velocity[k]]
        local_optimum ==
            [k \in 1..m |-> IF Improves(opt, F(position[k]), F(sw.local_optimum[k]))
                            THEN position[k] ELSE sw.local_optimum[k]]
        global_optimum ==
            Some(Unwrap(MaxBy(local_optimum, UpdateCompare(opt, local_optimum))))
    IN  [position |-> position, velocity |-> sw.velocity,
         local_optimum |-> local_optimum, global_optimum |-> global_optimum]

\* update, sub-steps 1 to 3: positions, personal bests, global best
Move(sw, opt) ==
    LET m == Len(sw.position)
        position == [k \in 1..m |-> sw.position[k] + sw.velocity[k]]
        local_optimum ==
            [k \in 1..m |-> IF Improves(opt, F(position[k]), F(sw.local_optimum[k]))
                            THEN position[k] ELSE sw.local_optimum[k]]
        global_optimum ==
            Some(Unwrap(MaxBy(local_optimum, UpdateCompare(opt, local_optimum))))
    IN  [position |-> position, velocity |-> sw.velocity,
         local_optimum |-> local_optimum, global_optimum |-> global_optimum]

\* mutant: an inertia weight of CNum/CDen on the old velocity
Accelerate_Inertia(sw, draws) ==
    [sw EXCEPT !.velocity =
        [k \in 1..Len(sw.velocity) |->
            ((CNum * sw.velocity[k]) \div CDen)
            + Scaled(draws[2 * k - 1], sw.local_optimum[k] - sw.position[k])
            + Scaled(draws[2 * k], Unwrap(sw.global_optimum) - sw.position[k])]]

\* update, sub-step 4: velocities; draws are the values r.gen() yields, in order:
\* r1 then r2 for each particle
Accelerate(sw, draws) ==
    [sw EXCEPT !.velocity =
        [k \in 1..Len(sw.velocity) |->
            sw.velocity[k]
            + Scaled(draws[2 * k - 1], sw.local_optimum[k] - sw.position[k])
            + Scaled(draws[2 * k], Unwrap(sw.global_optimum) - sw.position[k])]]

\* update
Update(sw, opt, draws) == Accelerate(Move(sw, opt), draws)

\* the draws of one step for which the model's arithmetic is exact, given the
\* swarm after sub-steps 1 to 3
Exact(moved, draws) ==
    \A k \in 1..Len(moved.position) :
        /\ Whole(draws[2 * k - 1], moved.local_optimum[k] - moved.position[k])
        /\ Whole(draws[2 * k], Unwrap(moved.global_optimum) - moved.position[k])

\* every position and velocity is within the model's range
InRange(sw) ==
    \A k \in 1..Len(sw.position) :
        /\ sw.position[k] \in (0 - MaxAbs)..MaxAbs
        /\ sw.velocity[k] \in (0 - MaxAbs)..MaxAbs

(* ------------------------------ the driver ---------------------------- *)
VARIABLES
    run_opts,   \* RunOptions as parse returned it: n, iter, thresh, init, vinit
    opt,        \* the OptimizationPolicy handed to the constructors and to update
    pc,         \* where main is: "start", "exit", "main", "built", "for", "while",
                \* "report", "done", "panic"
    panic,      \* the panic that aborted the run, "" when none
    swarm,      \* the ParticleSwarm of main, NoSwarm before construction
    range,      \* the iterator 1..i+1 of the fixed-iteration loop
    i,          \* the counter i of the threshold loop
    finished,   \* the N of "Finished in N iterations", None when not printed
    steps,      \* ghost: how many times update was applied (saturates at StepCap)
    held,       \* ghost: for each particle, the best objective value (per direction) over
                \* the positions it has held so far
    args,       \* std::env::args() until parse has read it, <<>> afterwards
    stdout,     \* the lines parse and usage have printed with println!
    stderr,     \* the lines main has printed with eprintln!
    exit_code   \* the status handed to std::process::exit, None when not called

\* the command line and what its handling printed
cli == <<args, stdout, stderr, exit_code>>

vars == <<run_opts, opt, pc, panic, swarm, range, i, finished, steps, held, cli>>

n == run_opts.n
iter == run_opts.iter
thresh == run_opts.thresh

OptVec == {None} \cup {Some(s) : s \in SeqsUpTo(InitPos, MaxN)}
OptVel == {None} \cup {Some(s) : s \in SeqsUpTo(InitVel, MaxN)}

\* main after a successful parse.  main itself passes FindMinimum; FindMaximum
\* covers the other arm of the constructors and of update, under the for loop
\* (the while condition is written for a minimum)
Init ==
    /\ run_opts \in [n : 0..MaxN,
                     iter : {None} \cup {Some(k) : k \in 0..UsizeMax},
                     thresh : ThreshVals,
                     init : OptVec,
                     vinit : OptVel]
    /\ opt \in {"FindMinimum", "FindMaximum"}
    /\ opt = "FindMaximum" => IsSome(run_opts.iter)
    /\ pc = "main"
    /\ panic = ""
    /\ swarm = NoSwarm
    /\ range = [start |-> 0, end |-> 0]
    /\ i = 0
    /\ finished = None
    /\ steps = 0
    /\ held = <<>>
    /\ args = <<>>
    /\ stdout = <<>>
    /\ stderr = <<>>
    /\ exit_code = None

\* vec![0.0; n]
ZeroVec(k) == [j \in 1..k |-> 0]

\* the outcome of a constructor call becomes the state of main; the vectors of
\* run_opts are moved into the constructor or never read again
Construct(res) ==
    /\ swarm' = res.swarm
    /\ panic' = res.panic
    /\ pc' = IF res.panic = "" THEN "built" ELSE "panic"
    /\ held' = [k \in 1..Len(res.swarm.position) |-> F(res.swarm.position[k])]
    /\ run_opts' = IF res.panic = "" THEN [run_opts EXCEPT !.init = None, !.vinit = None]
                   ELSE run_opts
    /\ UNCHANGED <<opt, range, i, finished, steps, cli>>

\* main, --init given: ParticleSwarm::new with --vinit or with zeros
ConstructExplicit ==
    /\ pc = "main"
    /\ IsSome(run_opts.init)
    /\ LET x == Unwrap(run_opts.init)
           v == IF IsSome(run_opts.vinit) THEN Unwrap(run_opts.vinit) ELSE ZeroVec(n)
       IN  Construct(New(n, x, v, opt))

\* main, no --init: ParticleSwarm::new_random
ConstructRandom ==
    /\ pc = "main"
    /\ ~IsSome(run_opts.init)
    /\ \E draws \in [1..(2 * n) -> Gen] : Construct(NewRandom(n, draws, opt))

\* the better of two objective values per direction
BestOf(o, a, b) ==
    IF o = "FindMinimum" THEN (IF b < a THEN b ELSE a) ELSE (IF b > a THEN b ELSE a)

\* one call of update from a loop of main, with the ghosts
Step ==
    /\ \E moved \in {Move(swarm, opt)} :
          \E draws \in {d \in [1..(2 * Len(swarm.position)) -> Gen] : Exact(moved, d)} :
              /\ swarm' = Accelerate(moved, draws)
              /\ InRange(swarm')
    /\ steps' = IF steps < StepCap THEN steps + 1 ELSE steps
    /\ held' = [k \in 1..Len(held) |-> BestOf(opt, held[k], F(swarm'.position[k]))]

\* main, -i given: the range 1..i+1 is built; i+1 overflows for the largest usize,
\* which panics with overflow checks and wraps to 0 without them
ForEnter ==
    /\ pc = "built"
    /\ IsSome(iter)
    /\ IF Unwrap(iter) = UsizeMax
       THEN \/ /\ pc' = "panic"
               /\ panic' = "AddOverflow"
               /\ UNCHANGED range
            \/ /\ pc' = "for"
               /\ range' = [start |-> 1, end |-> 0]
               /\ UNCHANGED panic
       ELSE /\ pc' = "for"
            /\ range' = [start |-> 1, end |-> Unwrap(iter) + 1]
            /\ UNCHANGED panic
    /\ UNCHANGED <<run_opts, opt, swarm, i, finished, steps, held, cli>>

\* one iteration of the for loop
ForStep ==
    /\ pc = "for"
    /\ range.start < range.end
    /\ range' = [range EXCEPT !.start = @ + 1]
    /\ Step
    /\ UNCHANGED <<run_opts, opt, pc, panic, i, finished, cli>>

\* the range is exhausted
ForExit ==
    /\ pc = "for"
    /\ ~(range.start < range.end)
    /\ pc' = "report"
    /\ UNCHANGED <<run_opts, opt, panic, swarm, range, i, finished, steps, held, cli>>

\* mutant: the while loop also runs at the threshold itself
LoopCond_Ge(sw, e) == F(Unwrap(sw.global_optimum)) >= e

\* the condition of the while loop
LoopCond(sw, e) == F(Unwrap(sw.global_optimum)) > e

\* main, no -i: let mut i = 1
WhileEnter ==
    /\ pc = "built"
    /\ ~IsSome(iter)
    /\ pc' = "while"
    /\ i' = 1
    /\ UNCHANGED <<run_opts, opt, panic, swarm, range, finished, steps, held, cli>>

\* one iteration of the while loop: update, then i += 1 on an i32, which panics
\* with overflow checks and wraps without them
WhileStep ==
    /\ pc = "while"
    /\ LoopCond(swarm, thresh)
    /\ Step
    /\ IF i = I32Max
       THEN \/ /\ pc' = "panic"
               /\ panic' = "AddOverflow"
               /\ UNCHANGED i
            \/ /\ i' = I32Min
               /\ UNCHANGED <<pc, panic>>
       ELSE /\ i' = i + 1
            /\ UNCHANGED <<pc, panic>>
    /\ UNCHANGED <<run_opts, opt, range, finished, cli>>

\* the while condition is false: "Finished in {} iterations"
WhileExit ==
    /\ pc = "while"
    /\ ~LoopCond(swarm, thresh)
    /\ finished' = Some(i)
    /\ pc' = "report"
    /\ UNCHANGED <<run_opts, opt, panic, swarm, range, i, steps, held, cli>>

\* "Best value of x", "Best value of y"
Report ==
    /\ pc = "report"
    /\ pc' = "done"
    /\ UNCHANGED <<run_opts, opt, panic, swarm, range, i, finished, steps, held, cli>>

Next ==
    \/ ConstructExplicit
    \/ ConstructRandom
    \/ ForEnter
    \/ ForStep
    \/ ForExit
    \/ WhileEnter
    \/ WhileStep
    \/ WhileExit
    \/ Report

Spec == Init /\ [][Next]_vars

\* main runs to completion: a step that can be taken is taken
FairSpec == Spec /\ WF_vars(Next)

\* main at its first line: any command line of at most MaxArgs words; main hands
\* FindMinimum to the constructors and to update
InitArgs ==
    /\ args \in {<<"pso">> \o w : w \in SeqsUpTo(Words, MaxArgs)}
    /\ run_opts = [n |-> 0, iter |-> None, thresh |-> DefaultThresh,
                   init |-> None, vinit |-> None]
    /\ opt = "FindMinimum"
    /\ pc = "start"
    /\ panic = ""
    /\ swarm = NoSwarm
    /\ range = [start |-> 0, end |-> 0]
    /\ i = 0
    /\ finished = None
    /\ steps = 0
    /\ held = <<>>
    /\ stdout = <<>>
    /\ stderr = <<>>
    /\ exit_code = None

\* main, parse returned Ok(opts); the model follows swarms of at most MaxN particles
ParseOk ==
    /\ pc = "start"
    /\ \E res \in {Parse(args)} :
          /\ res.ok
          /\ res.val.n <= MaxN
          /\ run_opts' = res.val
          /\ stdout' = stdout \o res.out
    /\ pc' = "main"
    /\ args' = <<>>
    /\ UNCHANGED <<opt, panic, swarm, range, i, finished, steps, held, stderr, exit_code>>

\* main, parse returned Err(e): the line for e with eprintln!, usage, exit(1)
ParseErr ==
    /\ pc = "start"
    /\ \E res \in {Parse(args)} :
          /\ ~res.ok
          /\ stderr' = Append(stderr, ErrorLine[res.kind])
          /\ stdout' = Append(stdout \o res.out, UsageText)
    /\ exit_code' = Some(ExitFailure)
    /\ pc' = "exit"
    /\ UNCHANGED <<run_opts, opt, panic, swarm, range, i, finished, steps, held, args>>

NextArgs ==
    \/ ParseOk
    \/ ParseErr
    \/ Next

\* the whole program, from the command line on
ParseSpec == InitArgs /\ [][NextArgs]_vars

(* ------------------------------ properties ---------------------------- *)
\* a swarm has been built (it is still there after an overflow panic of a loop)
HasSwarm == pc # "main" /\ panic \in {"", "AddOverflow"}

\* objective value a is strictly better than b per direction
Better(o, a, b) == IF o = "FindMinimum" THEN a < b ELSE a > b
NotWorse(o, a, b) == ~Better(o, b, a)

\* the panics of the two length checks of ParticleSwarm::new
DimensionMismatch == {"PositionLength", "VelocityLength"}

\* the vectors main hands to ParticleSwarm::new
GivenX == Unwrap(run_opts.init)
GivenV == IF IsSome(run_opts.vinit) THEN Unwrap(run_opts.vinit) ELSE ZeroVec(n)

\* v is an element of s whose objective value no element of s beats
IsBestOf(o, v, s) ==
    /\ \E k \in 1..Len(s) : s[k] = v
    /\ \A k \in 1..Len(s) : NotWorse(o, F(v), F(s[k]))

\* C1: in every swarm state, right after construction and after any number of
\* update steps, global_optimum is set and is an element of local_optimum whose
\* objective value is the best per direction.
C1_GlobalIsBest ==
    HasSwarm =>
        /\ IsSome(swarm.global_optimum)
        /\ IsBestOf(opt, Unwrap(swarm.global_optimum), swarm.local_optimum)

\* C2: a constructor returns a swarm whose local_optimum equals position and whose
\* global_optimum is the element of position that is best per direction.
C2_ConstructionSelectsBest ==
    pc = "built" =>
        /\ swarm.local_optimum = swarm.position
        /\ IsSome(swarm.global_optimum)
        /\ IsBestOf(opt, Unwrap(swarm.global_optimum), swarm.position)

\* C3: for every particle the objective value of local_optimum is never worse
\* than that of any position the particle has held, the initial one included,
\* and it never gets worse from one step to the next.
C3_PersonalBestNeverWorse ==
    /\ [](HasSwarm =>
            \A k \in 1..Len(swarm.local_optimum) :
                NotWorse(opt, F(swarm.local_optimum[k]), held[k]))
    /\ [][HasSwarm =>
            \A k \in 1..Len(swarm.local_optimum) :
                NotWorse(opt, F(swarm'.local_optimum[k]), F(swarm.local_optimum[k]))]_vars

\* a particle has moved to a position worse than its personal best, which is
\* itself not the initial position any more
C3_Witness ==
    /\ HasSwarm
    /\ steps >= 2
    /\ \E k \in 1..Len(swarm.position) :
          /\ Better(opt, F(swarm.local_optimum[k]), F(swarm.position[k]))
          /\ swarm.local_optimum[k] \notin InitPos \cup Gen

\* some draws take the swarm one step further inside the model's range
CanStep ==
    \E draws \in [1..(2 * Len(swarm.position)) -> Gen] :
        /\ Exact(Move(swarm, opt), draws)
        /\ InRange(Update(swarm, opt, draws))

\* the run is over, or has reached the edge of the model's range
Over == pc \in {"done", "panic"} \/ (pc \in {"for", "while"} /\ ~CanStep)

\* C4: the driver loop terminates for every initial swarm, every threshold and
\* every sequence of draws.
C4_LoopTerminates == <>Over

C6_FixedIterationCount ==
    (pc \in {"report", "done"} /\ IsSome(iter)) => steps = Unwrap(iter)

\* C7: ParticleSwarm::new fails with a dimension mismatch whenever the position
\* or the velocity vector has a length other than n; no swarm is produced and no
\* update step runs afterwards.
C7_DimensionMismatchFailsFast ==
    /\ [][(pc = "main" /\ IsSome(run_opts.init)
             /\ (Len(GivenX) # n \/ Len(GivenV) # n)) =>
            (pc' = "panic" /\ panic' \in DimensionMismatch /\ swarm' = NoSwarm)]_vars
    /\ [](panic \in DimensionMismatch => (pc = "panic" /\ swarm = NoSwarm /\ steps = 0))
    /\ [][panic \notin DimensionMismatch]_vars

\* new was handed a position vector of length n + 1 and panicked
C7_Witness ==
    /\ n >= 1
    /\ pc = "panic"
    /\ panic = "PositionLength"
    /\ Len(GivenX) = n + 1

\* C8: for n = 0 both constructors end in an explicit outcome, an EmptySwarm
\* failure or a swarm whose global_optimum is unset, never in an unchecked panic.
C8_EmptySwarmIsExplicit ==
    (n = 0 /\ pc # "main" /\ panic \notin DimensionMismatch) =>
        \/ panic = "EmptySwarm"
        \/ (panic = "" /\ ~IsSome(swarm.global_optimum))

\* C10: position, velocity and local_optimum all have length n in every swarm
\* state, and a step keeps every particle at its index: particle k moves by its
\* own velocity and its personal best stays or becomes its own new position.
C10_LengthsAreN ==
    /\ [](HasSwarm =>
            /\ Len(swarm.position) = n
            /\ Len(swarm.velocity) = n
            /\ Len(swarm.local_optimum) = n)
    /\ [][HasSwarm =>
            \/ swarm' = swarm
            \/ \A k \in 1..n :
                  /\ swarm'.position[k] = swarm.position[k] + swarm.velocity[k]
                  /\ swarm'.local_optimum[k] \in
                         {swarm.local_optimum[k], swarm'.position[k]}]_vars

\* a swarm of two particles after two steps
C10_Witness == HasSwarm /\ n = 2 /\ steps >= 2

\* C11: whenever main builds a swarm from a command line with --vinit, the
\* swarm's first velocity vector is the supplied one, with or without --init;
\* with --init and no --vinit it is the zero vector of length n.
C11_VinitHonoured ==
    [][(pc = "main" /\ pc' = "built") =>
          /\ IsSome(run_opts.vinit) => swarm'.velocity = Unwrap(run_opts.vinit)
          /\ (IsSome(run_opts.init) /\ ~IsSome(run_opts.vinit)) =>
                 swarm'.velocity = ZeroVec(n)]_vars

\* the words of a from j on are items, each -v or a value-taking flag followed by
\* a value that parses for it
RECURSIVE ItemsFrom(_, _)
ItemsFrom(a, j) ==
    \/ j > Len(a)
    \/ a[j] = "-v" /\ ItemsFrom(a, j + 1)
    \/ /\ a[j] \in ValueFlags
       /\ j + 1 <= Len(a)
       /\ IF a[j] \in {"-n", "-i", "--seed"} THEN IsSome(ParseUsize(a[j + 1]))
          ELSE IF a[j] = "-e" THEN IsSome(ParseF64(a[j + 1]))
          ELSE \A k \in 1..Len(Split(a[j + 1])) : IsSome(ParseF64(Split(a[j + 1])[k]))
       /\ ItemsFrom(a, j + 2)

\* a flag without its value, a value that does not parse, an unknown argument,
\* or no -n
Malformed(a) == ~ItemsFrom(a, 2) \/ (\A j \in 2..Len(a) : a[j] # "-n")

\* C12: on every malformed argument list parse fails, and the run prints the
\* usage message to the error stream and exits with a non-zero status; no swarm
\* is built and no step is applied.
C12_MalformedPrintsUsage ==
    /\ [][(pc = "start" /\ Malformed(args)) => pc' = "exit"]_vars
    /\ [](pc = "exit" =>
            /\ \E k \in 1..Len(stderr) : stderr[k] = UsageText
            /\ IsSome(exit_code) /\ Unwrap(exit_code) # 0
            /\ swarm = NoSwarm
            /\ steps = 0)

\* what holds of C12 on the code: the failure, the exit status and the untouched
\* swarm; the usage message is on the standard stream
C12_MalformedExits ==
    /\ [][(pc = "start" /\ Malformed(args)) => pc' = "exit"]_vars
    /\ [][(pc = "start" /\ ~Malformed(args)) => pc' # "exit"]_vars
    /\ [][pc = "exit" => FALSE]_vars
    /\ [](pc = "exit" =>
            /\ Len(stderr) = 1
            /\ stdout # <<>> /\ stdout[Len(stdout)] = UsageText
            /\ IsSome(exit_code) /\ Unwrap(exit_code) # 0
            /\ swarm = NoSwarm
            /\ steps = 0)

\* this step of main applies update
StepTaken == (pc = "for" /\ pc' = "for") \/ (pc = "while" /\ pc' # "report")

Abs(x) == IF x < 0 THEN 0 - x ELSE x

\* C13: the position of every particle after an update step is its position
\* before the step plus its velocity before the step, not the velocity the step
\* computes; with velocity 0.0 the position stays.
C13_PositionUsesOldVelocity ==
    [][StepTaken =>
          /\ Len(swarm'.position) = Len(swarm.position)
          /\ \A k \in 1..Len(swarm.position) :
                swarm'.position[k] = swarm.position[k] + swarm.velocity[k]]_vars

\* the first step has computed a velocity no constructor yields
C13_Witness ==
    /\ HasSwarm
    /\ steps = 1
    /\ \E k \in 1..Len(swarm.velocity) : Abs(swarm.velocity[k]) >= 2

\* C14: the velocity of every particle after an update step is its old velocity,
\* with coefficient 1, plus c1*r1*(local_optimum - position) plus
\* c2*r2*(global_optimum - position) for two draws r1 and r2, where position,
\* local_optimum and global_optimum are the values this step has written.
C14_VelocityReadsNewValues ==
    [][StepTaken =>
          \A k \in 1..Len(swarm.velocity) :
              \E r1 \in Gen, r2 \in Gen :
                  /\ Whole(r1, swarm'.local_optimum[k] - swarm'.position[k])
                  /\ Whole(r2, Unwrap(swarm'.global_optimum) - swarm'.position[k])
                  /\ swarm'.velocity[k] =
                         swarm.velocity[k]
                         + Scaled(r1, swarm'.local_optimum[k] - swarm'.position[k])
                         + Scaled(r2, Unwrap(swarm'.global_optimum) - swarm'.position[k])]_vars

\* a particle away from its personal best and from the global best carries a
\* velocity that only the velocity sub-step yields
C14_Witness ==
    /\ HasSwarm
    /\ steps >= 1
    /\ \E k \in 1..Len(swarm.velocity) :
          /\ swarm.local_optimum[k] # swarm.position[k]
          /\ Unwrap(swarm.global_optimum) # swarm.position[k]
          /\ Abs(swarm.velocity[k]) >= 2

\* C15: after an update step global_optimum is the direction-best element of the
\* personal bests the step has just written, whatever global_optimum was before
\* the step (the constructors leave one that is not the best).
C15_GlobalRescanned ==
    (HasSwarm /\ steps >= 1) =>
        /\ IsSome(swarm.global_optimum)
        /\ \E k \in 1..Len(swarm.local_optimum) :
              /\ swarm.local_optimum[k] = Unwrap(swarm.global_optimum)
              /\ \A j \in 1..Len(swarm.local_optimum) :
                    ~Better(opt, F(swarm.local_optimum[j]), F(swarm.local_optimum[k]))

\* both particles of a swarm of two have improved in the first step, to positions
\* no constructor yields, and so past the global best of the constructor
C15_Witness ==
    /\ HasSwarm
    /\ steps = 1
    /\ n = 2
    /\ \A k \in 1..2 :
          /\ swarm.local_optimum[k] = swarm.position[k]
          /\ swarm.position[k] \notin InitPos \cup Gen

\* C16: an update step overwrites local_optimum[k] with the new position[k]
\* exactly when the new position is strictly better per direction; on a tie or a
\* worse position local_optimum[k] is left as it was.
C16_PersonalBestStrict ==
    [][StepTaken =>
          \A k \in 1..Len(swarm.local_optimum) :
              swarm'.local_optimum[k] =
                  IF Better(opt, F(swarm'.position[k]), F(swarm.local_optimum[k]))
                  THEN swarm'.position[k]
                  ELSE swarm.local_optimum[k]]_vars

\* a particle stands on a position as good as its personal best, which is another
\* number
C16_Witness ==
    /\ HasSwarm
    /\ steps >= 1
    /\ \E k \in 1..Len(swarm.position) :
          /\ swarm.position[k] # swarm.local_optimum[k]
          /\ F(swarm.position[k]) = F(swarm.local_optimum[k])

\* the particles whose personal best no personal best beats
BestIndices == {k \in 1..Len(swarm.local_optimum) :
                   \A j \in 1..Len(swarm.local_optimum) :
                       NotWorse(opt, F(swarm.local_optimum[k]), F(swarm.local_optimum[j]))}

\* C17: when several personal bests share the best objective value, update sets
\* global_optimum to the one of the highest particle index, for both directions.
C17_TieGoesToLast ==
    (HasSwarm /\ steps >= 1) =>
        \E k \in BestIndices :
            /\ \A j \in BestIndices : j <= k
            /\ Unwrap(swarm.global_optimum) = swarm.local_optimum[k]

\* two personal bests that are different numbers tie for the best under
\* FindMaximum
C17_Witness ==
    /\ HasSwarm
    /\ steps >= 1
    /\ opt = "FindMaximum"
    /\ BestIndices = {1, 2}
    /\ swarm.local_optimum[1] # swarm.local_optimum[2]

\* the same tie under FindMinimum
C17_WitnessMin ==
    /\ HasSwarm
    /\ steps >= 1
    /\ opt = "FindMinimum"
    /\ BestIndices = {1, 2}
    /\ swarm.local_optimum[1] # swarm.local_optimum[2]

\* C18: in threshold mode the number of steps applied is the least k such that
\* the best position any particle has held up to step k has an objective value
\* of at most e: a step is applied only while no particle has held such a
\* position, and none when an initial position is one.
C18_LeastStepCount ==
    /\ [][(pc = "while" /\ pc' # "report") =>
            \A k \in 1..Len(held) : held[k] > thresh]_vars
    /\ []((pc \in {"report", "done"} /\ ~IsSome(iter)) =>
            \E k \in 1..Len(held) : held[k] <= thresh)

\* C19: the N of "Finished in N iterations" is the number of update steps the
\* run has applied, 0 when the first swarm meets the threshold.
C19_PrintedCountIsSteps ==
    (IsSome(finished) /\ steps < StepCap) => Unwrap(finished) = steps

\* C20: from the swarm a constructor returns on, the objective value of
\* global_optimum after a step is never worse per direction than before it.
C20_GlobalNeverWorse ==
    [][(HasSwarm /\ StepTaken) =>
          NotWorse(opt, F(Unwrap(swarm'.global_optimum)),
                   F(Unwrap(swarm.global_optimum)))]_vars

\* after two steps both particles of a swarm of two stand on positions worse
\* than the global best, which the swarm has kept from an earlier step and which
\* beats the personal best of the first particle
C20_Witness ==
    /\ HasSwarm
    /\ steps >= 2
    /\ n = 2
    /\ \A k \in 1..Len(swarm.position) :
          Better(opt, F(Unwrap(swarm.global_optimum)), F(swarm.position[k]))
    /\ Better(opt, F(Unwrap(swarm.global_optimum)), F(swarm.local_optimum[1]))

====
